---- MODULE Spec2Model ----
(***************************************************************************)
(* Model of the three LED-blink programs of Arduino_baremetal              *)
(*   01_blink_led/blink_led.c, 02_register_ReadWrite/reg_readwrite.c,      *)
(*   03_delay_timer/delay_timer.c                                          *)
(* running on the device whose registers they address (DDRB 0x24,          *)
(* PORTB 0x25, TCCR1A 0x80, TCCR1B 0x81, TCNT1L 0x84, TCNT1H 0x85,         *)
(* TIFR1 0x36: the ATmega328P).  The program is the sequence of bus        *)
(* accesses the C code performs; the device answers each access and        *)
(* advances Timer/Counter1 on its own.                                     *)
(***************************************************************************)
EXTENDS Integers, FiniteSets, Sequences, TLC

VARIABLES
    prog,        \* which of the three programs runs: 1, 2 or 3
    pc,          \* position of the program
    ret,         \* call site of the delay in progress: 1 (after set), 2 (after clear)
    io,          \* the device registers
    acc,         \* value loaded by the read half of set_bit(TIFR1_ADDR, 0), 0 outside it
    bus,         \* most recent store of the CPU: address, value, sequence bit
    budget,      \* timer ticks that may still fall into the current straight-line run
    timed,       \* the tick counters below are kept (TimedSpec)
    elapsed,     \* ticks since the entry of the delay invocation in progress
    atFlag,      \* value of elapsed when TOV1 became set in this invocation, 0 before
    prevElapsed, \* ticks from entry to return of the previous invocation, 0 if none
    done,        \* a delay invocation has returned
    sawFlag,     \* a poll of this invocation has read TOV1 as set
    changes,     \* level changes of PORTB5 since the last completed delay
    io0,         \* the registers as they were at reset
    unit         \* primitive applied on its own (SpecBits): operation, address, bit

vars == <<prog, pc, ret, io, acc, bus, budget, timed, elapsed, atFlag, prevElapsed,
          done, sawFlag, changes, io0, unit>>

----------------------------------------------------------------------------
(* Bounds *)

\* A straight-line run of the program (everything outside the poll loop) is
\* shorter than TickBudget periods of the prescaled clock: at most TickBudget
\* ticks fall into a run that starts at an arbitrary phase of the prescaler,
\* and at most TickBudget - 1 into a run that starts with a tick.
TickBudget == 1

----------------------------------------------------------------------------
(* Register addresses *)

DDRB_ADDR   == 36    \* 0x24
PORTB_ADDR  == 37    \* 0x25
TCCR1A_ADDR == 128   \* 0x80
TCCR1B_ADDR == 129   \* 0x81
TCNT1L_ADDR == 132   \* 0x84
TCNT1H_ADDR == 133   \* 0x85
TIFR1_ADDR  == 54    \* 0x36

\* Bytes delay_1000ms stores to the counter (0xDB, 0x0B)
PreloadLow  == 219
PreloadHigh == 11

----------------------------------------------------------------------------
(* 8-bit arithmetic *)

Pow2(n) == 2 ^ n

Bit(v, i) == (v \div Pow2(i)) % 2

BitsOf(v) == {i \in 0..7 : Bit(v, i) = 1}

ByteOf(S) ==
    LET w(i) == IF i \in S THEN Pow2(i) ELSE 0
    IN  w(0) + w(1) + w(2) + w(3) + w(4) + w(5) + w(6) + w(7)

\* v | bit : the bit index used as the mask
OrMask_index(v, bit) == ByteOf(BitsOf(v) \cup BitsOf(bit))

\* uint8_t result of  v | (1 << bit)
OrMask(v, bit) == ByteOf(BitsOf(v) \cup {bit})

\* v & (1 << bit) : the complement forgotten
AndNotMask_noinvert(v, bit) == ByteOf(BitsOf(v) \cap {bit})

\* uint8_t result of  v & ~(1 << bit)
AndNotMask(v, bit) == ByteOf(BitsOf(v) \ {bit})

----------------------------------------------------------------------------
(* The device: what a load or a store at a register address does *)

\* Clock select field CS12:CS10 of the second control register; 0 = stopped.
ClockSelect(tccr1b) == tccr1b % 8

\* Divisor of the system clock chosen by a clock select value.
Prescaler(cs) ==
    CASE cs = 1 -> 1
      [] cs = 2 -> 8
      [] cs = 3 -> 64
      [] cs = 4 -> 256
      [] cs = 5 -> 1024
      [] OTHER  -> 0

\* Byte returned by a load from addr (the programs load from these three).
Load(h, addr) ==
    CASE addr = DDRB_ADDR   -> h.DDRB
      [] addr = PORTB_ADDR  -> h.PORTB
      [] addr = TIFR1_ADDR  -> h.TIFR1

\* Registers after a store of value at addr.  The flag register is
\* write-1-to-clear.  The 16-bit counter is written through the timer's
\* temporary high-byte register: a store to the high byte only fills TEMP,
\* a store to the low byte loads the counter with TEMP:value.
Store(h, addr, value) ==
    CASE addr = DDRB_ADDR   -> [h EXCEPT !.DDRB = value]
      [] addr = PORTB_ADDR  -> [h EXCEPT !.PORTB = value]
      [] addr = TCCR1A_ADDR -> [h EXCEPT !.TCCR1A = value]
      [] addr = TCCR1B_ADDR -> [h EXCEPT !.TCCR1B = value]
      [] addr = TIFR1_ADDR  -> [h EXCEPT !.TIFR1 = ByteOf(BitsOf(h.TIFR1) \ BitsOf(value))]
      [] addr = TCNT1L_ADDR -> [h EXCEPT !.TCNT1 = h.TEMP * 256 + value]
      [] addr = TCNT1H_ADDR -> [h EXCEPT !.TEMP = value]

\* One increment of the counter at the prescaled clock: it wraps from 0xFFFF
\* to 0 and the wrap sets the overflow flag TOV1 (bit 0 of the flag register).
\* The compare registers are never written and hold 0, so the increment that
\* leaves 0 sets the compare flags OCF1A and OCF1B (bits 1 and 2).
Count(h) ==
    [h EXCEPT !.TCNT1 = (h.TCNT1 + 1) % 65536,
              !.TIFR1 = IF h.TCNT1 = 65535 THEN ByteOf(BitsOf(h.TIFR1) \cup {0})
                        ELSE IF h.TCNT1 = 0 THEN ByteOf(BitsOf(h.TIFR1) \cup {1, 2})
                        ELSE h.TIFR1]

TOV1(h) == Bit(h.TIFR1, 0)

----------------------------------------------------------------------------
(* The register access primitives *)

Note(addr, value) == [addr |-> addr, value |-> value, seq |-> 1 - bus.seq]

write_reg(addr, value) ==
    /\ io' = Store(io, addr, value)
    /\ bus' = Note(addr, value)

read_reg(addr) == Load(io, addr)

\* *reg = (1 << bit) : assignment instead of |=
set_bit_assign(addr, bit) ==
    /\ io' = Store(io, addr, Pow2(bit))
    /\ bus' = Note(addr, Pow2(bit))

set_bit(addr, bit) ==
    /\ io' = Store(io, addr, OrMask(Load(io, addr), bit))
    /\ bus' = Note(addr, OrMask(Load(io, addr), bit))

clear_bit(addr, bit) ==
    /\ io' = Store(io, addr, AndNotMask(Load(io, addr), bit))
    /\ bus' = Note(addr, AndNotMask(Load(io, addr), bit))

----------------------------------------------------------------------------
(* Program positions *)

DelayPcs == {"d_tccr1a", "d_tccr1b", "d_tcnt1l", "d_tcnt1h", "d_poll",
             "d_clr_ld", "d_clr_st", "d_ret", "delay_ms"}

InDelay == pc \in DelayPcs

\* Entry of the delay the program calls: delay_1000ms in the timer program,
\* the library's _delay_ms in the other two.
Call(site) ==
    /\ pc' = IF prog = 3 THEN "d_tccr1a" ELSE "delay_ms"
    /\ ret' = site
    /\ elapsed' = 0
    /\ atFlag' = 0
    /\ sawFlag' = FALSE

\* Continuation of main after the delay called from site.
Resume == IF ret = 1 THEN "loop_clear" ELSE "loop_set"

Level(h) == Bit(h.PORTB, 5)

----------------------------------------------------------------------------
(* Initial state: the registers after reset *)

PortReset == {[DDRB |-> 0, PORTB |-> 0], [DDRB |-> 195, PORTB |-> 165]}

Reset(t) ==
    /\ prog \in {1, 2, 3}
    /\ timed = t
    /\ pc = "main_ddr"
    /\ ret = 0
    /\ \E p \in PortReset :
          io = [DDRB |-> p.DDRB, PORTB |-> p.PORTB, TCCR1A |-> 0, TCCR1B |-> 0,
                TCNT1 |-> 0, TEMP |-> 0, TIFR1 |-> 0]
    /\ acc = 0
    /\ bus = [addr |-> 0, value |-> 0, seq |-> 0]
    /\ budget = TickBudget
    /\ elapsed = 0
    /\ atFlag = 0
    /\ prevElapsed = 0
    /\ done = FALSE
    /\ sawFlag = FALSE
    /\ changes = 0
    /\ io0 = io
    /\ unit = [op |-> "none", addr |-> 0, bit |-> 0]

Init == Reset(FALSE)

\* The same start with the tick counters running.
InitTimed == Reset(TRUE)

----------------------------------------------------------------------------
(* main *)

MainSetOutput ==
    /\ pc = "main_ddr"
    /\ set_bit(DDRB_ADDR, 5)
    /\ pc' = "loop_set"
    /\ UNCHANGED <<prog, timed, ret, acc, budget, elapsed, atFlag, prevElapsed,
                   done, sawFlag, changes, io0, unit>>

MainSetPin ==
    /\ pc = "loop_set"
    /\ set_bit(PORTB_ADDR, 5)
    /\ changes' = IF Level(io') # Level(io) THEN changes + 1 ELSE changes
    /\ Call(1)
    /\ UNCHANGED <<prog, timed, acc, budget, prevElapsed, done, io0, unit>>

MainClearPin ==
    /\ pc = "loop_clear"
    /\ clear_bit(PORTB_ADDR, 5)
    /\ changes' = IF Level(io') # Level(io) THEN changes + 1 ELSE changes
    /\ Call(2)
    /\ UNCHANGED <<prog, timed, acc, budget, prevElapsed, done, io0, unit>>

\* _delay_ms(1000) of the first two programs: a calibrated busy loop that
\* touches no register.
LibDelay ==
    /\ pc = "delay_ms"
    /\ pc' = Resume
    /\ done' = TRUE
    /\ changes' = 0
    /\ UNCHANGED <<prog, timed, ret, io, acc, bus, budget, elapsed, atFlag,
                   prevElapsed, sawFlag, io0, unit>>

----------------------------------------------------------------------------
(* delay_1000ms *)

DelayWriteTccr1a ==
    /\ pc = "d_tccr1a"
    /\ write_reg(TCCR1A_ADDR, 0)
    /\ pc' = "d_tccr1b"
    /\ UNCHANGED <<prog, timed, ret, acc, budget, elapsed, atFlag, prevElapsed,
                   done, sawFlag, changes, io0, unit>>

\* clock select 0: the counter stopped
DelayWriteTccr1b_stopped ==
    /\ pc = "d_tccr1b"
    /\ write_reg(TCCR1B_ADDR, 0)
    /\ pc' = "d_tcnt1l"
    /\ UNCHANGED <<prog, timed, ret, acc, budget, elapsed, atFlag, prevElapsed,
                   done, sawFlag, changes, io0, unit>>

DelayWriteTccr1b ==
    /\ pc = "d_tccr1b"
    /\ write_reg(TCCR1B_ADDR, 4)
    /\ pc' = "d_tcnt1l"
    /\ UNCHANGED <<prog, timed, ret, acc, budget, elapsed, atFlag, prevElapsed,
                   done, sawFlag, changes, io0, unit>>

DelayWriteTcnt1l ==
    /\ pc = "d_tcnt1l"
    /\ write_reg(TCNT1L_ADDR, PreloadLow)
    /\ pc' = "d_tcnt1h"
    /\ UNCHANGED <<prog, timed, ret, acc, budget, elapsed, atFlag, prevElapsed,
                   done, sawFlag, changes, io0, unit>>

\* The last store before the wait: the straight-line run ends here.
DelayWriteTcnt1h ==
    /\ pc = "d_tcnt1h"
    /\ write_reg(TCNT1H_ADDR, PreloadHigh)
    /\ pc' = "d_poll"
    /\ budget' = 0
    /\ UNCHANGED <<prog, timed, ret, acc, elapsed, atFlag, prevElapsed,
                   done, sawFlag, changes, io0, unit>>

\* while (read_reg(TIFR1_ADDR) & 1);  the negation forgotten
DelayPoll_inverted ==
    /\ pc = "d_poll"
    /\ IF Bit(read_reg(TIFR1_ADDR), 0) = 0
         THEN pc' = "d_clr_ld"
         ELSE UNCHANGED pc
    /\ UNCHANGED <<prog, timed, ret, io, acc, bus, budget, elapsed, atFlag,
                   prevElapsed, done, sawFlag, changes, io0, unit>>

\* while (!(read_reg(TIFR1_ADDR) & 1));  one evaluation of the condition
DelayPoll ==
    /\ pc = "d_poll"
    /\ IF Bit(read_reg(TIFR1_ADDR), 0) = 1
         THEN /\ pc' = "d_clr_ld"
              /\ sawFlag' = TRUE
         ELSE UNCHANGED <<pc, sawFlag>>
    /\ UNCHANGED <<prog, timed, ret, io, acc, bus, budget, elapsed, atFlag,
                   prevElapsed, done, changes, io0, unit>>

\* set_bit(TIFR1_ADDR, 0), the load of  *reg |= (1 << bit)
DelayClearFlagLoad ==
    /\ pc = "d_clr_ld"
    /\ acc' = read_reg(TIFR1_ADDR)
    /\ pc' = "d_clr_st"
    /\ UNCHANGED <<prog, timed, ret, io, bus, budget, elapsed, atFlag, prevElapsed,
                   done, sawFlag, changes, io0, unit>>

\* clear_bit(TIFR1_ADDR, 0) in place of set_bit: a 0 stored to bit 0
DelayClearFlagStore_zero ==
    /\ pc = "d_clr_st"
    /\ write_reg(TIFR1_ADDR, AndNotMask(acc, 0))
    /\ acc' = 0
    /\ pc' = "d_ret"
    /\ UNCHANGED <<prog, timed, ret, budget, elapsed, atFlag, prevElapsed,
                   done, sawFlag, changes, io0, unit>>

\* set_bit(TIFR1_ADDR, 0), the store of  *reg |= (1 << bit)
DelayClearFlagStore ==
    /\ pc = "d_clr_st"
    /\ write_reg(TIFR1_ADDR, OrMask(acc, 0))
    /\ acc' = 0
    /\ pc' = "d_ret"
    /\ UNCHANGED <<prog, timed, ret, budget, elapsed, atFlag, prevElapsed,
                   done, sawFlag, changes, io0, unit>>

DelayReturn ==
    /\ pc = "d_ret"
    /\ pc' = Resume
    /\ prevElapsed' = IF timed THEN elapsed ELSE prevElapsed
    /\ done' = TRUE
    /\ changes' = 0
    /\ UNCHANGED <<prog, timed, ret, io, acc, bus, budget, elapsed, atFlag,
                   sawFlag, io0, unit>>

----------------------------------------------------------------------------
(* The timer *)

\* A tick of the prescaled clock.  The counter runs whenever the clock select
\* is not "stopped".  While the program waits in the poll loop ticks are free;
\* elsewhere only the ticks the straight-line run has room for can occur.  The
\* run that follows the wait starts with the tick that sets the flag.
Tick ==
    /\ ClockSelect(io.TCCR1B) # 0
    /\ \/ pc = "d_poll" /\ TOV1(io) = 0
       \/ budget > 0
    /\ io' = Count(io)
    /\ budget' = IF io.TCNT1 = 65535 THEN TickBudget - 1
                 ELSE IF pc = "d_poll" /\ TOV1(io) = 0 THEN budget
                 ELSE budget - 1
    /\ elapsed' = IF timed /\ InDelay THEN elapsed + 1 ELSE elapsed
    /\ atFlag' = IF timed /\ InDelay /\ io.TCNT1 = 65535 /\ atFlag = 0
                   THEN elapsed + 1 ELSE atFlag
    /\ UNCHANGED <<prog, timed, pc, ret, acc, bus, prevElapsed, done, sawFlag, changes,
                   io0, unit>>

----------------------------------------------------------------------------
(* The programs *)

Step ==
    \/ MainSetOutput
    \/ MainSetPin
    \/ MainClearPin
    \/ LibDelay
    \/ DelayWriteTccr1a
    \/ DelayWriteTccr1b
    \/ DelayWriteTcnt1l
    \/ DelayWriteTcnt1h
    \/ DelayPoll
    \/ DelayClearFlagLoad
    \/ DelayClearFlagStore
    \/ DelayReturn

Next ==
    \/ Step
    \/ Tick

Spec == Init /\ [][Next]_vars

\* The programs with the ticks of every delay invocation counted.
TimedSpec == InitTimed /\ [][Next]_vars

\* The CPU always executes its next instruction and the prescaled clock keeps
\* ticking.
FairSpec == Spec /\ WF_vars(Step) /\ WF_vars(Tick)

----------------------------------------------------------------------------
(* The bit primitives on their own: one call of set_bit or clear_bit with an *)
(* address the programs pass to it, any bit index, any register content      *)

SetBitAddrs   == {DDRB_ADDR, PORTB_ADDR, TIFR1_ADDR}
ClearBitAddrs == {PORTB_ADDR}

\* Contents the flag register can have: TOV1, OCF1A, OCF1B in any combination.
FlagValues == {ByteOf(S) : S \in SUBSET {0, 1, 2}}

InitBits ==
    /\ prog \in {2, 3}
    /\ timed = FALSE
    /\ pc = "unit"
    /\ ret = 0
    /\ \E d \in {0, 255}, v \in 0..255, f \in FlagValues :
          io = [DDRB |-> IF d = 0 THEN v ELSE 255 - v, PORTB |-> v, TCCR1A |-> 0,
                TCCR1B |-> 0, TCNT1 |-> 0, TEMP |-> 0, TIFR1 |-> f]
    /\ acc = 0
    /\ bus = [addr |-> 0, value |-> 0, seq |-> 0]
    /\ budget = 0
    /\ elapsed = 0
    /\ atFlag = 0
    /\ prevElapsed = 0
    /\ done = FALSE
    /\ sawFlag = FALSE
    /\ changes = 0
    /\ io0 = io
    /\ unit = [op |-> "none", addr |-> 0, bit |-> 0]

UnitSetBit(addr, bit) ==
    /\ pc = "unit"
    /\ set_bit(addr, bit)
    /\ unit' = [op |-> "set_bit", addr |-> addr, bit |-> bit]
    /\ pc' = "unit_done"
    /\ UNCHANGED <<prog, timed, ret, acc, budget, elapsed, atFlag, prevElapsed, done,
                   sawFlag, changes, io0>>

UnitClearBit(addr, bit) ==
    /\ pc = "unit"
    /\ clear_bit(addr, bit)
    /\ unit' = [op |-> "clear_bit", addr |-> addr, bit |-> bit]
    /\ pc' = "unit_done"
    /\ UNCHANGED <<prog, timed, ret, acc, budget, elapsed, atFlag, prevElapsed, done,
                   sawFlag, changes, io0>>

NextBits ==
    \/ \E addr \in SetBitAddrs, bit \in 0..7 : UnitSetBit(addr, bit)
    \/ \E addr \in ClearBitAddrs, bit \in 0..7 : UnitClearBit(addr, bit)

SpecBits == InitBits /\ [][NextBits]_vars

----------------------------------------------------------------------------
(* Properties *)

Abs(n) == IF n < 0 THEN -n ELSE n

\* Positions of delay_1000ms after the preload has been stored.
Loaded == pc \in {"d_poll", "d_clr_ld", "d_clr_st", "d_ret"}

\* Ticks between the entry of the invocation in progress and the overflow
\* flag becoming set: the ticks counted so far plus the ticks the counter
\* still needs to wrap, or the count taken when the flag was set.
TicksToFlag == IF atFlag # 0 THEN atFlag ELSE elapsed + (65536 - io.TCNT1)

\* The counter value the routine means to preload, 0x0BDB.
PreloadValue == PreloadHigh * 256 + PreloadLow

\* C1: two consecutive invocations of delay_1000ms take the same number of
\* ticks from entry to return, within one tick, and every invocation after
\* the first is entered with the overflow flag clear.
CE_C1 ==
    /\ (pc = "d_ret" /\ prevElapsed # 0) => Abs(elapsed - prevElapsed) <= 1
    /\ (pc = "d_tccr1a" /\ done) => TOV1(io) = 0

\* C2: in every invocation of delay_1000ms the number of ticks from its entry
\* to the overflow flag becoming set is 0x10000 - 0x0BDB, within one tick.
CE_C2 == Loaded => Abs(TicksToFlag - (65536 - PreloadValue)) <= 1

\* C3: the two bytes stored to the counter, high:low, plus the ticks of one
\* second at 16 MHz divided by the selected prescaler, make exactly 0x10000.
CE_C3 ==
    [][(pc = "d_tcnt1h" /\ pc' = "d_poll") =>
          bus'.value * 256 + bus.value
            + (16000000 \div Prescaler(ClockSelect(io.TCCR1B))) = 65536]_vars

\* C4: a store to the flag register clears exactly the flags whose bit is
\* stored as 1; delay_1000ms stores a 1 to bit 0 after a poll has seen the
\* flag set, and at its return the overflow flag reads clear.
T_C4 ==
    /\ [](pc = "d_ret" =>
            /\ TOV1(io) = 0
            /\ sawFlag
            /\ bus.addr = TIFR1_ADDR
            /\ Bit(bus.value, 0) = 1)
    /\ [][(bus' # bus /\ bus'.addr = TIFR1_ADDR) =>
            \A i \in 0..7 :
               Bit(io'.TIFR1, i) = IF Bit(bus'.value, i) = 1 THEN 0
                                   ELSE Bit(io.TIFR1, i)]_vars

W_C4 == pc = "d_ret" /\ ret = 2 /\ sawFlag /\ TOV1(io) = 0 /\ io.TEMP = PreloadHigh

\* The result of one primitive call, read back: the addressed bit has the
\* value want and the other seven bits of the register are as before.
RoundTrip(want) ==
    /\ Bit(Load(io, unit.addr), unit.bit) = want
    /\ \A i \in (0..7) \ {unit.bit} :
          Bit(Load(io, unit.addr), i) = Bit(Load(io0, unit.addr), i)

\* C5 as stated: for every register address the programs pass to them,
\* set_bit then a read shows the bit set and clear_bit then a read shows it
\* clear, all other bits unchanged.
CE_C5 ==
    /\ unit.op = "set_bit" => RoundTrip(1)
    /\ unit.op = "clear_bit" => RoundTrip(0)

\* C5 amended: the round trip holds for the data-direction and output-port
\* registers (the flag register is write-1-to-clear and is left out).
T_C5 ==
    /\ (unit.op = "set_bit" /\ unit.addr \in {DDRB_ADDR, PORTB_ADDR})
          => RoundTrip(1)
    /\ (unit.op = "clear_bit" /\ unit.addr \in {DDRB_ADDR, PORTB_ADDR})
          => RoundTrip(0)

W_C5 ==
    /\ unit = [op |-> "set_bit", addr |-> PORTB_ADDR, bit |-> 6]
    /\ io0.PORTB = 165
    /\ io.PORTB = 229

\* C6: data-direction bit 5 is set once and stays set; output bit 5 is HIGH
\* during every odd-numbered delay and LOW during every even-numbered one,
\* changes only in main between two delays, once per completed delay, and
\* keeps alternating for ever.
T_C6 ==
    /\ [](pc # "main_ddr" => Bit(io.DDRB, 5) = 1)
    /\ []((InDelay /\ ret = 1) => Level(io) = 1)
    /\ []((InDelay /\ ret = 2) => Level(io) = 0)
    /\ [](changes <= 1)
    /\ []((InDelay /\ done) => changes = 1)
    /\ [][Level(io') # Level(io) =>
            (pc \in {"loop_set", "loop_clear"} /\ InDelay')]_vars
    /\ []<>(Level(io) = 1)
    /\ []<>(Level(io) = 0)

W_C6 == prog = 3 /\ pc = "d_poll" /\ ret = 1 /\ done /\ Level(io) = 1
        /\ changes = 1 /\ Level(io0) = 1 /\ Bit(io.DDRB, 5) = 1

\* C7: every bit other than bit 5 of the output port and of the
\* data-direction register keeps the value it had at the start, and no step
\* of the delay stores to either register.
T_C7 ==
    /\ [](\A i \in (0..7) \ {5} :
             /\ Bit(io.PORTB, i) = Bit(io0.PORTB, i)
             /\ Bit(io.DDRB, i) = Bit(io0.DDRB, i))
    /\ [][InDelay =>
            /\ io'.PORTB = io.PORTB
            /\ io'.DDRB = io.DDRB
            /\ (bus' # bus => bus'.addr \notin {DDRB_ADDR, PORTB_ADDR})]_vars

W_C7 == prog = 3 /\ pc = "loop_set" /\ ret = 2 /\ done
        /\ io0.PORTB = 165 /\ io.PORTB = 133 /\ io.DDRB = 227

\* The state of the delay: COUNTING from the completion of the preload until
\* the store that clears the flag, IDLE otherwise.
DelayState ==
    IF pc \in {"d_poll", "d_clr_ld", "d_clr_st"} THEN "COUNTING" ELSE "IDLE"

\* C8: COUNTING is left only by the flag-clearing store, made only after a
\* poll of the same invocation has read the flag set; the routine does not
\* return without that; COUNTING is entered only by a call that has not
\* polled yet.
T_C8 ==
    /\ [](pc \in {"d_clr_ld", "d_clr_st", "d_ret"} => sawFlag)
    /\ [][(~sawFlag /\ sawFlag') => (pc = "d_poll" /\ TOV1(io) = 1)]_vars
    /\ [][(DelayState = "COUNTING" /\ DelayState' = "IDLE") =>
            /\ pc = "d_clr_st"
            /\ sawFlag
            /\ bus' # bus
            /\ bus'.addr = TIFR1_ADDR
            /\ Bit(bus'.value, 0) = 1]_vars
    /\ [][(DelayState = "IDLE" /\ DelayState' = "COUNTING") =>
            (pc = "d_tcnt1h" /\ ~sawFlag)]_vars

W_C8 == pc = "d_ret" /\ ret = 1 /\ done /\ sawFlag /\ DelayState = "IDLE"

\* C9: the clock select stored by delay_1000ms is not "stopped", and every
\* invocation that is entered reaches its return.
T_C9 ==
    /\ [](pc = "d_tcnt1l" =>
            (bus.addr = TCCR1B_ADDR /\ ClockSelect(bus.value) # 0))
    /\ [](Loaded => ClockSelect(io.TCCR1B) # 0)
    /\ (pc = "d_tccr1a") ~> (pc = "d_ret")

W_C9 == pc = "d_ret" /\ ret = 2 /\ ClockSelect(io.TCCR1B) = 4

====
